---------------------------- MODULE Spec2Model ----------------------------
(***************************************************************************)
(* A model of MotionObservable (material-motion-js): the operator engine   *)
(* (_nextOperator), the multicast group of _remember()/dedupe(), the       *)
(* frame-coalescing _debounce(), merge(), log() and the runtime type of    *)
(* the stream each operator returns.                                       *)
(*                                                                         *)
(* Each operator is modelled by its own specification (SpecRemember,       *)
(* SpecDebounce, SpecMerge, SpecLog, SpecType) over its own variables; a   *)
(* specification leaves the variables of the other operators unchanged.    *)
(***************************************************************************)
EXTENDS Integers, Sequences, FiniteSets, TLC

(***************************************************************************)
(* Bounds of the model.                                                    *)
(***************************************************************************)
\* Observer objects that may subscribe to the stream under study.
NumObservers == 2
\* Distinct values a source may dispatch (1..NumValues).
NumValues == 2
\* Values a source dispatches in one behaviour.
MaxSent == 3
\* console.warn calls recorded in one behaviour.
MaxWarn == 1
\* Animation frames that fire in one behaviour.
MaxTicks == 2
\* subscribe calls made on a _debounce() stream in one behaviour.
MaxSubscriptions == 2
\* Values the sources of a merged stream dispatch in one behaviour.
MaxMergeSent == 2
\* Operators applied one after the other to build a chain.
MaxChain == 2
\* Values a producer delivers synchronously when it is subscribed to.
MaxBurst == 4
\* _read() calls made in one behaviour.
MaxReads == 2
\* Values the parent of an operator stream dispatches.
MaxOpSent == 2
\* Values the parent of a mapRange() stream dispatches.
MaxMapRangeSent == 2
\* Values dispatched to a stream whose observers call back into it.
MaxReentrantSent == 2
\* Nested calls the call stack holds before it overflows.
MaxDepth == 3
\* Bits in the significand of a floating-point number of the model; a
\* JavaScript number has 53.
Precision == 4

Observers == 1..NumObservers
Values == 1..NumValues

\* The streams merge() may be given, and the lists [this, ...otherStreams]
\* it is built from: one stream alone, two streams, a stream given twice.
Sources == {"a", "b"}
MergeLists == {<<"a">>, <<"a", "b">>, <<"a", "b", "b">>}

\* The value of a `let x: T;` that was never assigned.
Undefined == 0

(***************************************************************************)
(* Sequence helpers.                                                       *)
(***************************************************************************)
Last(s) == s[Len(s)]

InSeq(x, s) == \E i \in 1..Len(s) : s[i] = x

RECURSIVE Without(_, _)
Without(s, x) ==
  IF s = <<>> THEN <<>>
  ELSE IF Head(s) = x THEN Without(Tail(s), x)
  ELSE <<Head(s)>> \o Without(Tail(s), x)

VARIABLES
  \* ---- _remember() / dedupe() ----
  kind,             \* which operator built the stream: "remember" or "dedupe"
  observers,        \* _remember: the Set of observers, in insertion order
  subscription,     \* _remember: "undefined", "live" or "null"
  lastValue,        \* _remember: the cached value
  hasStarted,       \* _remember: the started flag
  dispatched,       \* dedupe: whether a value was dispatched before
  dedupeLastValue,  \* dedupe: the last value dispatched
  parentSubs,       \* live subscriptions the stream holds on its parent
  received,         \* per observer: values its next() got since its latest
                    \* subscribe or unsubscribe call
  sent,             \* values the source pushed, in order
  since,            \* per observer: Len(sent) at that call
  groupIn,          \* values the multicast group's callback was called with
  warned,           \* console.warn calls
  \* ---- _debounce() ----
  subscribers,      \* observers with a live subscription, in subscribe order
  queuedFrameID,    \* _debounce: 0, or the handle requestAnimationFrame gave
  debounceLastValue,\* _debounce: the buffered value
  frameQueue,       \* callbacks requestAnimationFrame holds for the next frame
  ticks,            \* animation frames fired so far
  sinceTick,        \* per observer: values its subscription got since the last frame
  subscriptionsMade,\* subscribe calls made on the stream so far
  \* ---- merge() ----
  mergeList,        \* [this, ...otherStreams]: the sources, by name
  sourceSubs,       \* per source: the observers of its live subscriptions, in order
  subscriptions,    \* per observer: the sources its live merged subscription holds
  \* ---- log() ----
  pluckPath,        \* log: the pluckPath argument, a string as its characters
  logSubscribers,   \* observers with a live subscription, in subscribe order
  logged,           \* what console.log was called with, in order
  threw,            \* TypeErrors raised out of the operation
  \* ---- the runtime type of the streams operators return ----
  originType,       \* the constructor of the stream the chain starts from
  streamType,       \* the constructor of the stream the chain has reached
  chain,            \* the operators applied so far
  \* ---- _read() ----
  readTarget,       \* the stream _read() is called on: "cold" or "remembered"
  burst,            \* what the producer delivers synchronously on subscribe
  readResult,       \* what the latest _read() returned
  readCount,        \* _read() calls made so far
  \* ---- streams built by _nextOperator() ----
  opName,           \* the operator the stream is built with
  opBuilt,          \* whether the operator has been applied
  opDownstream,     \* observers holding a live subscription to the stream
  opParent,         \* observers on whose behalf a parent subscription is live
  opConnects,       \* times the parent's producer has been invoked
  \* ---- mapRange() ----
  mapRangeArgs,     \* { fromStart, fromEnd, toStart, toEnd }
  mapRangeSent,     \* values the parent dispatched
  mapRangeReceived, \* values the observer of the mapRange() stream received
  \* ---- observers that call back into the stream ----
  behaviour,        \* what each observer's next handler does
  readSeen,         \* per observer, what its _read() calls returned
  raised,           \* whether the latest call ended with an exception
  depthSeen,        \* deepest nesting of upstream dispatches in the latest call
  handles           \* observers whose subscribe call returned a subscription

\* Shared by the specifications: what the source pushed, what observers got.
sharedVars == <<received, sent, since>>

rememberVars == <<kind, observers, subscription, lastValue, hasStarted,
                  dispatched, dedupeLastValue, parentSubs, groupIn, warned>>

debounceVars == <<subscribers, queuedFrameID, debounceLastValue, frameQueue,
                  ticks, sinceTick, subscriptionsMade>>

mergeVars == <<mergeList, sourceSubs, subscriptions>>

logVars == <<pluckPath, logSubscribers, logged, threw>>

typeVars == <<originType, streamType, chain>>

readVars == <<readTarget, burst, readResult, readCount>>

\* The variables of _read() and of the specifications that follow it.
operatorVars == <<opName, opBuilt, opDownstream, opParent, opConnects>>

mapRangeVars == <<mapRangeArgs, mapRangeSent, mapRangeReceived>>

reentrantVars == <<behaviour, readSeen, raised, depthSeen, handles>>

laterVars == <<readVars, operatorVars, mapRangeVars, reentrantVars>>

vars == <<sharedVars, rememberVars, debounceVars, mergeVars, logVars, typeVars,
          laterVars>>

otherThanRemember == <<debounceVars, mergeVars, logVars, typeVars, laterVars>>
otherThanDebounce == <<rememberVars, mergeVars, logVars, typeVars, laterVars>>
otherThanMerge == <<rememberVars, debounceVars, logVars, typeVars, laterVars>>
otherThanLog == <<rememberVars, debounceVars, mergeVars, typeVars, laterVars>>
otherThanType == <<sharedVars, rememberVars, debounceVars, mergeVars, logVars,
                   laterVars>>
otherThanRead == <<sharedVars, debounceVars, mergeVars, logVars, typeVars,
                   operatorVars, mapRangeVars, reentrantVars>>
otherThanOperator == <<rememberVars, debounceVars, mergeVars, logVars,
                       typeVars, readVars, mapRangeVars, reentrantVars>>
otherThanMapRange == <<sharedVars, rememberVars, debounceVars, mergeVars,
                       logVars, typeVars, readVars, operatorVars,
                       reentrantVars>>
otherThanReentrant == <<debounceVars, mergeVars, logVars, typeVars, readVars,
                        operatorVars, mapRangeVars>>

(***************************************************************************)
(* _remember() and dedupe().  The state the closures of one stream share   *)
(* is threaded through the operators below as a record.                    *)
(***************************************************************************)
Group ==
  [observers |-> observers, lastValue |-> lastValue, hasStarted |-> hasStarted,
   dispatched |-> dispatched, dedupeLastValue |-> dedupeLastValue,
   received |-> received, groupIn |-> groupIn]

\* observer.next(value) of a recording observer.
ObserverNext(g, o, v) ==
  [g EXCEPT !.received[o] = Append(@, v)]

\* observers.forEach(observer => observer.next(value)), in insertion order.
RECURSIVE FanOut(_, _, _)
FanOut(g, i, v) ==
  IF i > Len(g.observers) THEN g
  ELSE FanOut(ObserverNext(g, g.observers[i], v), i + 1, v)

\* hasStarted = true; lastValue = value, as a plausible slip: the cache is
\* written once and never refreshed.
CacheValueOnce(g, v) ==
  IF g.hasStarted THEN g ELSE [g EXCEPT !.hasStarted = TRUE, !.lastValue = v]

\* hasStarted = true; lastValue = value.
CacheValue(g, v) ==
  [g EXCEPT !.hasStarted = TRUE, !.lastValue = v]

\* The callback _remember() subscribes to its parent with: fan the value out,
\* then cache it.
RememberNext(g, v) ==
  CacheValue(FanOut([g EXCEPT !.groupIn = Append(@, v)], 1, v), v)

\* The equality predicate of dedupe(): deepEqual by default.
AreEqual(a, b) == a = b

\* dedupe's test, as a plausible slip: nothing is ever dropped.
DedupeDropsNever(g, v) == FALSE

\* if (dispatched && areEqual(value, lastValue)) return;
DedupeDrops(g, v) ==
  g.dispatched /\ AreEqual(v, g.dedupeLastValue)

\* The operation dedupe() hands to _nextOperator; its dispatch is the
\* callback of the _remember() group that wraps it.
DedupeNext(g, v) ==
  IF DedupeDrops(g, v) THEN g
  ELSE RememberNext([g EXCEPT !.dedupeLastValue = v, !.dispatched = TRUE], v)

\* What one live subscription on the parent does with a value.
StreamNext(g, v) ==
  IF kind = "dedupe" THEN DedupeNext(g, v) ELSE RememberNext(g, v)

\* The parent calls the callback of each live subscription.
RECURSIVE PerSubscription(_, _, _)
PerSubscription(g, n, v) ==
  IF n = 0 THEN g ELSE PerSubscription(StreamNext(g, v), n - 1, v)

\* observers.has(observer), as a plausible slip: the check is missing.
HasObserverNever(o) == FALSE

\* observers.has(observer)
HasObserver(o) == InSeq(o, observers)

\* if (!observers.size), as a plausible slip: every subscriber subscribes
\* to the parent.
SubscribesParentAlways == TRUE

\* if (!observers.size) subscription = this.subscribe(...)
SubscribesParent == Len(observers) = 0

\* if (!observers.size) in the teardown, as a plausible slip: the parent is
\* never released.
ReleasesParentNever(rest) == FALSE

\* if (!observers.size) subscription.unsubscribe()
ReleasesParent(rest) == Len(rest) = 0

\* observers.add(observer) on a Set
SetAdd(s, o) == IF InSeq(o, s) THEN s ELSE Append(s, o)

\* subscribe(observer) on the stream _remember() returned.
RememberSubscribe(o) ==
  /\ UNCHANGED otherThanRemember
  /\ IF HasObserver(o)
       THEN /\ warned < MaxWarn
            /\ warned' = warned + 1
            /\ UNCHANGED <<kind, observers, subscription, lastValue, hasStarted,
                           dispatched, dedupeLastValue, parentSubs, received,
                           sent, groupIn, since>>
       ELSE /\ parentSubs' = IF SubscribesParent THEN parentSubs + 1 ELSE parentSubs
            /\ subscription' = IF SubscribesParent THEN "live" ELSE subscription
            /\ observers' = SetAdd(observers, o)
            /\ received' = [received EXCEPT ![o] =
                              IF InSeq(o, observers)
                              THEN IF hasStarted THEN Append(@, lastValue) ELSE @
                              ELSE IF hasStarted THEN <<lastValue>> ELSE <<>>]
            /\ since' = [since EXCEPT ![o] = IF InSeq(o, observers) THEN @ ELSE Len(sent)]
            /\ UNCHANGED <<kind, lastValue, hasStarted, dispatched,
                           dedupeLastValue, sent, groupIn, warned>>

\* unsubscribe() on the subscription a registering subscribe returned.
RememberUnsubscribe(o) ==
  /\ UNCHANGED otherThanRemember
  /\ InSeq(o, observers)
  /\ LET rest == Without(observers, o) IN
       /\ observers' = rest
       /\ parentSubs' = IF ReleasesParent(rest) THEN parentSubs - 1 ELSE parentSubs
       /\ subscription' = IF ReleasesParent(rest) THEN "null" ELSE subscription
  /\ received' = [received EXCEPT ![o] = <<>>]
  /\ since' = [since EXCEPT ![o] = Len(sent)]
  /\ UNCHANGED <<kind, lastValue, hasStarted, dispatched, dedupeLastValue,
                 sent, groupIn, warned>>

\* The parent stream pushes a value to the subscriptions the stream holds.
RememberDispatch(v) ==
  /\ UNCHANGED otherThanRemember
  /\ parentSubs > 0
  /\ Len(sent) < MaxSent
  /\ sent' = Append(sent, v)
  /\ LET g == PerSubscription(Group, parentSubs, v) IN
       /\ lastValue' = g.lastValue
       /\ hasStarted' = g.hasStarted
       /\ dispatched' = g.dispatched
       /\ dedupeLastValue' = g.dedupeLastValue
       /\ received' = g.received
       /\ groupIn' = g.groupIn
  /\ UNCHANGED <<kind, observers, subscription, parentSubs, since, warned>>

\* The state of the operators a specification does not exercise.
IdleRemember ==
  /\ kind = "remember"
  /\ observers = <<>>
  /\ subscription = "undefined"
  /\ lastValue = Undefined
  /\ hasStarted = FALSE
  /\ dispatched = FALSE
  /\ dedupeLastValue = Undefined
  /\ parentSubs = 0
  /\ groupIn = <<>>
  /\ warned = 0

IdleDebounce ==
  /\ subscribers = <<>>
  /\ queuedFrameID = 0
  /\ debounceLastValue = Undefined
  /\ frameQueue = <<>>
  /\ ticks = 0
  /\ sinceTick = [o \in Observers |-> <<>>]
  /\ subscriptionsMade = 0

IdleMerge ==
  /\ mergeList = <<>>
  /\ sourceSubs = [s \in Sources |-> <<>>]
  /\ subscriptions = [o \in Observers |-> <<>>]

IdleLog ==
  /\ pluckPath = <<>>
  /\ logSubscribers = <<>>
  /\ logged = <<>>
  /\ threw = 0

IdleType ==
  /\ originType = "MotionObservable"
  /\ streamType = "MotionObservable"
  /\ chain = <<>>

IdleShared ==
  /\ received = [o \in Observers |-> <<>>]
  /\ sent = <<>>
  /\ since = [o \in Observers |-> 0]

IdleRead ==
  /\ readTarget = "cold"
  /\ burst = <<>>
  /\ readResult = Undefined
  /\ readCount = 0

IdleOperator ==
  /\ opName = "_map"
  /\ opBuilt = FALSE
  /\ opDownstream = {}
  /\ opParent = {}
  /\ opConnects = 0

IdleMapRange ==
  /\ mapRangeArgs = <<>>
  /\ mapRangeSent = <<>>
  /\ mapRangeReceived = <<>>

IdleReentrant ==
  /\ behaviour = [o \in Observers |-> "record"]
  /\ readSeen = [o \in Observers |-> <<>>]
  /\ raised = FALSE
  /\ depthSeen = 0
  /\ handles = {}

IdleLater ==
  /\ IdleRead
  /\ IdleOperator
  /\ IdleMapRange
  /\ IdleReentrant

InitRemember ==
  /\ IdleLater
  /\ IdleDebounce
  /\ IdleMerge
  /\ IdleLog
  /\ IdleType
  /\ kind \in {"remember", "dedupe"}
  /\ observers = <<>>
  /\ subscription = "undefined"
  /\ lastValue = Undefined
  /\ hasStarted = FALSE
  /\ dispatched = FALSE
  /\ dedupeLastValue = Undefined
  /\ parentSubs = 0
  /\ received = [o \in Observers |-> <<>>]
  /\ sent = <<>>
  /\ groupIn = <<>>
  /\ since = [o \in Observers |-> 0]
  /\ warned = 0

NextRemember ==
  \/ \E o \in Observers : RememberSubscribe(o)
  \/ \E o \in Observers : RememberUnsubscribe(o)
  \/ \E v \in Values : RememberDispatch(v)

SpecRemember == InitRemember /\ [][NextRemember]_vars

(***************************************************************************)
(* _debounce(), built on _nextOperator.  queuedFrameID and lastValue are   *)
(* declared in the body of _debounce(), so every subscription to the       *)
(* stream it returns reads and writes the same two variables.              *)
(***************************************************************************)
Debounce ==
  [queuedFrameID |-> queuedFrameID, debounceLastValue |-> debounceLastValue,
   frameQueue |-> frameQueue, received |-> received, sinceTick |-> sinceTick]

\* The handle requestAnimationFrame returns: never 0.
FrameHandle == ticks + 1

\* if (!queuedFrameID), as a plausible slip: a frame is requested for every
\* value.
NeedsFrameAlways(d) == TRUE

\* if (!queuedFrameID)
NeedsFrame(d) == d.queuedFrameID = 0

\* The operation _debounce() hands to _nextOperator, called for a value the
\* subscription of observer o received; nextChannel is o's next.
DebounceOperation(d, o, v) ==
  LET d1 == [d EXCEPT !.debounceLastValue = v,
                      !.sinceTick[o] = Append(@, v)]
  IN IF NeedsFrame(d1)
     THEN [d1 EXCEPT !.queuedFrameID = FrameHandle,
                     !.frameQueue = Append(@, [id |-> FrameHandle, target |-> o])]
     ELSE d1

\* The callback handed to requestAnimationFrame:
\* nextChannel(lastValue); queuedFrameID = 0.
FrameCallback(d, cb) ==
  [d EXCEPT !.received[cb.target] = Append(@, d.debounceLastValue),
            !.queuedFrameID = 0]

\* The parent calls the callback of each live subscription, in the order
\* they subscribed.
RECURSIVE DebounceEach(_, _, _)
DebounceEach(d, subs, v) ==
  IF subs = <<>> THEN d
  ELSE DebounceEach(DebounceOperation(d, Head(subs), v), Tail(subs), v)

\* The frame runs the callbacks it holds, in the order they were requested.
RECURSIVE RunFrame(_, _)
RunFrame(d, cbs) ==
  IF cbs = <<>> THEN d
  ELSE RunFrame(FrameCallback(d, Head(cbs)), Tail(cbs))

\* subscribe(observer) on the stream _debounce() returned (_nextOperator):
\* one more subscription on the parent.
DebounceSubscribe(o) ==
  /\ UNCHANGED otherThanDebounce
  /\ ~InSeq(o, subscribers)
  /\ subscriptionsMade < MaxSubscriptions
  /\ subscriptionsMade' = subscriptionsMade + 1
  /\ subscribers' = Append(subscribers, o)
  /\ received' = [received EXCEPT ![o] = <<>>]
  /\ sinceTick' = [sinceTick EXCEPT ![o] = <<>>]
  /\ UNCHANGED <<queuedFrameID, debounceLastValue, frameQueue, ticks, sent,
                 since>>

\* The teardown _nextOperator returns: the parent subscription's unsubscribe
\* and nothing else.
DebounceUnsubscribe(o) ==
  /\ UNCHANGED otherThanDebounce
  /\ InSeq(o, subscribers)
  /\ subscribers' = Without(subscribers, o)
  /\ received' = [received EXCEPT ![o] = <<>>]
  /\ sinceTick' = [sinceTick EXCEPT ![o] = <<>>]
  /\ UNCHANGED <<queuedFrameID, debounceLastValue, frameQueue, ticks,
                 subscriptionsMade, sent, since>>

\* The parent stream pushes a value to every live subscription.
DebounceDispatch(v) ==
  /\ UNCHANGED otherThanDebounce
  /\ subscribers # <<>>
  /\ Len(sent) < MaxSent
  /\ sent' = Append(sent, v)
  /\ LET d == DebounceEach(Debounce, subscribers, v) IN
       /\ queuedFrameID' = d.queuedFrameID
       /\ debounceLastValue' = d.debounceLastValue
       /\ frameQueue' = d.frameQueue
       /\ sinceTick' = d.sinceTick
       /\ received' = d.received
  /\ UNCHANGED <<subscribers, ticks, subscriptionsMade, since>>

\* An animation frame fires.
Tick ==
  /\ UNCHANGED otherThanDebounce
  /\ ticks < MaxTicks
  /\ ticks' = ticks + 1
  /\ LET d == RunFrame([Debounce EXCEPT !.frameQueue = <<>>], frameQueue) IN
       /\ queuedFrameID' = d.queuedFrameID
       /\ debounceLastValue' = d.debounceLastValue
       /\ frameQueue' = d.frameQueue
       /\ received' = d.received
  /\ sinceTick' = [o \in Observers |-> <<>>]
  /\ UNCHANGED <<subscribers, subscriptionsMade, sent, since>>

InitDebounce ==
  /\ IdleLater
  /\ IdleRemember
  /\ IdleMerge
  /\ IdleLog
  /\ IdleType
  /\ IdleDebounce
  /\ IdleShared

NextDebounce ==
  \/ \E o \in Observers : DebounceSubscribe(o)
  \/ \E o \in Observers : DebounceUnsubscribe(o)
  \/ \E v \in Values : DebounceDispatch(v)
  \/ Tick

SpecDebounce == InitDebounce /\ [][NextDebounce]_vars

(***************************************************************************)
(* Properties of _debounce().                                              *)
(***************************************************************************)
\* C4: at most one requestAnimationFrame callback is pending; while the
\* stream has had a single subscription, a frame after which that
\* subscription received values hands its observer exactly one value, the
\* last received, and a frame without a value received hands it nothing.
C4_OneDispatchPerTick ==
  /\ [](Len(frameQueue) <= 1)
  /\ [][\A o \in Observers :
          (Tick /\ subscriptionsMade = 1 /\ InSeq(o, subscribers))
            => received'[o] = (IF sinceTick[o] # <<>>
                               THEN Append(received[o], Last(sinceTick[o]))
                               ELSE received[o])]_vars

\* [1, 2, 1] was received before the first frame; the frame dispatched
\* the last value once, and the following frame dispatched nothing.
C4_Witness ==
  /\ subscriptionsMade = 1
  /\ subscribers = <<1>>
  /\ sent = <<1, 2, 1>>
  /\ ticks = 2
  /\ received[1] = <<1>>
  /\ frameQueue = <<>>

\* C9: an observer that unsubscribed from a _debounce() stream receives
\* nothing afterwards, also when a value was buffered and the frame had not
\* fired yet.
C9_UnsubscribeCancelsFrame ==
  [][\A o \in Observers :
       (~InSeq(o, subscribers) /\ ~InSeq(o, subscribers'))
         => received'[o] = received[o]]_vars

\* C16: each subscription to a _debounce() stream has its own buffer and
\* pending flag: a frame hands every subscribed observer whose subscription
\* received values since the frame before exactly one value, the last its
\* subscription received.
C16_PerSubscriptionDebounce ==
  [][\A o \in Observers :
       (Tick /\ InSeq(o, subscribers) /\ sinceTick[o] # <<>>)
         => received'[o] = Append(received[o], Last(sinceTick[o]))]_vars

(***************************************************************************)
(* merge().  A source is an Observable: each subscribe call on it is a     *)
(* subscription of its own, and a value it dispatches goes to the observer *)
(* of each of its live subscriptions.                                      *)
(***************************************************************************)
\* [this, ...otherStreams], as a plausible slip: only the receiver is
\* subscribed.
MergedStreamsThisOnly(list) == <<list[1]>>

\* [this, ...otherStreams]
MergedStreams(list) == list

\* The subscriptions the teardown releases, as a plausible slip: only the
\* first.
ReleasedFirstOnly(subs) == IF subs = <<>> THEN <<>> ELSE <<subs[1]>>

\* subscriptions.forEach(subscription => subscription.unsubscribe())
Released(subs) == subs

\* stream.subscribe(observer) for each stream of the list, in order.
RECURSIVE SubscribeEach(_, _, _)
SubscribeEach(subs, list, o) ==
  IF list = <<>> THEN subs
  ELSE SubscribeEach([subs EXCEPT ![Head(list)] = Append(@, o)], Tail(list), o)

\* One subscription of observer o leaves the sequence.
RECURSIVE WithoutOne(_, _)
WithoutOne(s, o) ==
  IF s = <<>> THEN <<>>
  ELSE IF Head(s) = o THEN Tail(s)
  ELSE <<Head(s)>> \o WithoutOne(Tail(s), o)

\* subscription.unsubscribe() for each subscription of the list, in order.
RECURSIVE UnsubscribeEach(_, _, _)
UnsubscribeEach(subs, list, o) ==
  IF list = <<>> THEN subs
  ELSE UnsubscribeEach([subs EXCEPT ![Head(list)] = WithoutOne(@, o)],
                       Tail(list), o)

\* observer.next(value) for the observer of each live subscription.
RECURSIVE DeliverEach(_, _, _)
DeliverEach(rcv, targets, v) ==
  IF targets = <<>> THEN rcv
  ELSE DeliverEach([rcv EXCEPT ![Head(targets)] = Append(@, v)],
                   Tail(targets), v)

\* subscribe(observer) on the stream merge() returned.
MergeSubscribe(o) ==
  /\ UNCHANGED otherThanMerge
  /\ subscriptions[o] = <<>>
  /\ sourceSubs' = SubscribeEach(sourceSubs, MergedStreams(mergeList), o)
  /\ subscriptions' = [subscriptions EXCEPT ![o] = MergedStreams(mergeList)]
  /\ received' = [received EXCEPT ![o] = <<>>]
  /\ since' = [since EXCEPT ![o] = Len(sent)]
  /\ UNCHANGED <<mergeList, sent>>

\* unsubscribe() on the subscription the merged stream returned.
MergeUnsubscribe(o) ==
  /\ UNCHANGED otherThanMerge
  /\ subscriptions[o] # <<>>
  /\ sourceSubs' = UnsubscribeEach(sourceSubs, Released(subscriptions[o]), o)
  /\ subscriptions' = [subscriptions EXCEPT ![o] = <<>>]
  /\ received' = [received EXCEPT ![o] = <<>>]
  /\ since' = [since EXCEPT ![o] = Len(sent)]
  /\ UNCHANGED <<mergeList, sent>>

\* A source dispatches a value.
MergeDispatch(s, v) ==
  /\ UNCHANGED otherThanMerge
  /\ Len(sent) < MaxMergeSent
  /\ sent' = Append(sent, [source |-> s, value |-> v])
  /\ received' = DeliverEach(received, sourceSubs[s], v)
  /\ UNCHANGED <<mergeList, sourceSubs, subscriptions, since>>

InitMerge ==
  /\ IdleLater
  /\ IdleRemember
  /\ IdleDebounce
  /\ IdleLog
  /\ IdleType
  /\ mergeList \in MergeLists
  /\ sourceSubs = [s \in Sources |-> <<>>]
  /\ subscriptions = [o \in Observers |-> <<>>]
  /\ received = [o \in Observers |-> <<>>]
  /\ sent = <<>>
  /\ since = [o \in Observers |-> 0]

NextMerge ==
  \/ \E o \in Observers : MergeSubscribe(o)
  \/ \E o \in Observers : MergeUnsubscribe(o)
  \/ \E s \in Sources, v \in Values : MergeDispatch(s, v)

SpecMerge == InitMerge /\ [][NextMerge]_vars

(***************************************************************************)
(* Properties of merge().                                                  *)
(***************************************************************************)
\* How many times a stream occurs in a list.
RECURSIVE Occurrences(_, _)
Occurrences(list, s) ==
  IF list = <<>> THEN 0
  ELSE (IF Head(list) = s THEN 1 ELSE 0) + Occurrences(Tail(list), s)

RECURSIVE Repeat(_, _)
Repeat(v, n) == IF n = 0 THEN <<>> ELSE <<v>> \o Repeat(v, n - 1)

\* What a subscriber of the merged stream is owed for the dispatches
\* from..Len(log): each value, in dispatch order, once per subscription the
\* merged stream holds on the source that dispatched it.
RECURSIVE Owed(_, _)
Owed(log, from) ==
  IF from > Len(log) THEN <<>>
  ELSE Repeat(log[from].value, Occurrences(mergeList, log[from].source))
         \o Owed(log, from + 1)

\* C5: an observer subscribed to the merged stream has received every value
\* any source dispatched since it subscribed, once per source subscription,
\* in the order the sources dispatched them.
C5_MergeForwardsAll ==
  \A o \in Observers :
    subscriptions[o] # <<>> => received[o] = Owed(sent, since[o] + 1)

\* 1 was dispatched on a and then 2 on b: the observer got [1, 2].
C5_Witness ==
  /\ mergeList = <<"a", "b">>
  /\ subscriptions[1] = <<"a", "b">>
  /\ since[1] = 0
  /\ sent = <<[source |-> "a", value |-> 1], [source |-> "b", value |-> 2]>>
  /\ received[1] = <<1, 2>>

\* C6: unsubscribing from the merged stream leaves the observer subscribed
\* to none of the sources, and while it stays unsubscribed no dispatch of
\* any source reaches it.
C6_MergeUnsubscribesAll ==
  /\ [](\A o \in Observers :
          subscriptions[o] = <<>> =>
            \A s \in Sources : ~InSeq(o, sourceSubs[s]))
  /\ [][\A o \in Observers :
          (subscriptions[o] = <<>> /\ subscriptions'[o] = <<>>)
            => received'[o] = received[o]]_vars

\* The observer unsubscribed after a dispatched 1, and b's later dispatch
\* of 2 did not reach it.
C6_Witness ==
  /\ mergeList = <<"a", "b">>
  /\ subscriptions[1] = <<>>
  /\ since[1] = 1
  /\ sent = <<[source |-> "a", value |-> 1], [source |-> "b", value |-> 2]>>
  /\ received[1] = <<>>

(***************************************************************************)
(* createPlucker() and log().  A string is the sequence of its characters. *)
(* A JavaScript value is the function from the property paths that lead to *)
(* a number in it to that number: a number is defined at the empty path    *)
(* alone, undefined is defined nowhere.                                    *)
(***************************************************************************)
JsUndefined == <<>>
JsNumber(n) == (<<>> :> n)

\* 7, {x: 1, y: 2} and {x: {y: 2}}
JsValues ==
  { JsNumber(7),
    (<< <<"x">> >> :> 1) @@ (<< <<"y">> >> :> 2),
    (<< <<"x">>, <<"y">> >> :> 2) }

\* '', 'x' and 'x.y'
PluckPaths == { <<>>, <<"x">>, <<"x", ".", "y">> }

\* path.split('.')
RECURSIVE Split(_)
Split(chars) ==
  IF \A i \in 1..Len(chars) : chars[i] # "."
  THEN <<chars>>
  ELSE LET dot == CHOOSE i \in 1..Len(chars) :
                    chars[i] = "." /\ \A j \in 1..(i - 1) : chars[j] # "."
       IN <<SubSeq(chars, 1, dot - 1)>> \o Split(SubSeq(chars, dot + 1, Len(chars)))

\* result[pathSegment] on a value that is not undefined.
GetProperty(value, segment) ==
  LET under == {p \in DOMAIN value : p # <<>> /\ Head(p) = segment}
      rest == {Tail(p) : p \in under}
  IN IF rest = {} THEN JsUndefined
     ELSE [q \in rest |-> value[<<segment>> \o q]]

\* plucker(value): walks the segments; indexing undefined is a TypeError.
RECURSIVE Plucker(_, _)
Plucker(pathSegments, value) ==
  IF pathSegments = <<>> THEN [threw |-> FALSE, result |-> value]
  ELSE IF value = JsUndefined THEN [threw |-> TRUE, result |-> JsUndefined]
  ELSE Plucker(Tail(pathSegments), GetProperty(value, Head(pathSegments)))

\* if (plucker) value = plucker(value): the value of `value` from there on.
LogValue(path, value) ==
  IF path # <<>> THEN Plucker(Split(path), value)
  ELSE [threw |-> FALSE, result |-> value]

Log ==
  [received |-> received, logged |-> logged, threw |-> threw, aborted |-> FALSE]

\* The operation log() hands to _nextOperator, called for a value the
\* subscription of observer o received: console.log(label, value);
\* nextChannel(value).
LogOperation(l, o, v) ==
  LET r == LogValue(pluckPath, v) IN
    IF r.threw THEN [l EXCEPT !.threw = @ + 1, !.aborted = TRUE]
    ELSE [l EXCEPT !.logged = Append(@, r.result),
                   !.received[o] = Append(@, r.result)]

\* The parent calls the callback of each live subscription; an exception
\* ends the pass.
RECURSIVE LogEach(_, _, _)
LogEach(l, subs, v) ==
  IF subs = <<>> \/ l.aborted THEN l
  ELSE LogEach(LogOperation(l, Head(subs), v), Tail(subs), v)

\* subscribe(observer) on the stream log() returned (_nextOperator).
LogSubscribe(o) ==
  /\ UNCHANGED otherThanLog
  /\ ~InSeq(o, logSubscribers)
  /\ logSubscribers' = Append(logSubscribers, o)
  /\ received' = [received EXCEPT ![o] = <<>>]
  /\ since' = [since EXCEPT ![o] = Len(sent)]
  /\ UNCHANGED <<pluckPath, logged, threw, sent>>

\* The teardown _nextOperator returns.
LogUnsubscribe(o) ==
  /\ UNCHANGED otherThanLog
  /\ InSeq(o, logSubscribers)
  /\ logSubscribers' = Without(logSubscribers, o)
  /\ received' = [received EXCEPT ![o] = <<>>]
  /\ since' = [since EXCEPT ![o] = Len(sent)]
  /\ UNCHANGED <<pluckPath, logged, threw, sent>>

\* The parent stream pushes a value to every live subscription.
LogDispatch(v) ==
  /\ UNCHANGED otherThanLog
  /\ logSubscribers # <<>>
  /\ Len(sent) < MaxSent
  /\ sent' = Append(sent, v)
  /\ LET l == LogEach(Log, logSubscribers, v) IN
       /\ received' = l.received
       /\ logged' = l.logged
       /\ threw' = l.threw
  /\ UNCHANGED <<pluckPath, logSubscribers, since>>

InitLog ==
  /\ IdleLater
  /\ IdleRemember
  /\ IdleDebounce
  /\ IdleMerge
  /\ IdleType
  /\ IdleShared
  /\ pluckPath \in PluckPaths
  /\ logSubscribers = <<>>
  /\ logged = <<>>
  /\ threw = 0

NextLog ==
  \/ \E o \in Observers : LogSubscribe(o)
  \/ \E o \in Observers : LogUnsubscribe(o)
  \/ \E v \in JsValues : LogDispatch(v)

SpecLog == InitLog /\ [][NextLog]_vars

(***************************************************************************)
(* Properties of log().                                                    *)
(***************************************************************************)
\* C7: what log() forwards is the value it received: an observer of
\* s.log(label, pluckPath) has received exactly the values s dispatched
\* since it subscribed, with or without a pluckPath.
C7_LogForwardsOriginal ==
  \A o \in Observers :
    InSeq(o, logSubscribers)
      => received[o] = SubSeq(sent, since[o] + 1, Len(sent))

(***************************************************************************)
(* The runtime type of the stream an operator returns.                     *)
(***************************************************************************)
StreamTypes == {"MotionObservable", "SubclassA", "SubclassB"}

OperatorNames ==
  {"merge", "mapRange", "mapTo", "inverted", "pluck", "dedupe", "log",
   "_map", "_filter", "_remember", "_debounce"}

\* new (this.constructor as typeof MotionObservable)(...) in _nextOperator
NextOperatorType(this) == this

\* new (this.constructor as typeof MotionObservable)(...) in merge
MergeType(this) == this

\* new MotionObservable(...) in _remember
RememberType(this) == "MotionObservable"

\* The constructor of the stream an operator returns when called on a stream
\* whose constructor is `this`.
ResultType(op, this) ==
  CASE op = "merge" -> MergeType(this)
    [] op = "_remember" -> RememberType(this)
    [] op = "dedupe" -> RememberType(NextOperatorType(this))
    [] OTHER -> NextOperatorType(this)

\* One more operator is applied to the stream the chain has reached.
ApplyOperator(op) ==
  /\ UNCHANGED otherThanType
  /\ Len(chain) < MaxChain
  /\ chain' = Append(chain, op)
  /\ streamType' = ResultType(op, streamType)
  /\ UNCHANGED originType

InitType ==
  /\ IdleLater
  /\ IdleRemember
  /\ IdleDebounce
  /\ IdleMerge
  /\ IdleLog
  /\ IdleShared
  /\ originType \in StreamTypes
  /\ streamType = originType
  /\ chain = <<>>

NextType == \E op \in OperatorNames : ApplyOperator(op)

SpecType == InitType /\ [][NextType]_vars

\* C8: after any chain of operators the stream has the runtime type of the
\* stream the chain started from.
C8_TypePreserved == streamType = originType

(***************************************************************************)
(* _read(): subscribe with an observer that assigns each value to result,  *)
(* unsubscribe at once, return result.  The stream read is either a cold   *)
(* stream whose producer delivers `burst` synchronously to each subscriber,*)
(* or that stream wrapped by _remember().                                  *)
(***************************************************************************)
\* The observer of _read(), as a plausible slip: only the first value is
\* kept.
ReadObserverKeepsFirst(result, value) ==
  IF result = Undefined THEN value ELSE result

\* (value) => { result = value; }
ReadObserverNext(result, value) == value

\* The producer calls the observer of _read() with each value in turn.
RECURSIVE ReadEach(_, _)
ReadEach(result, values) ==
  IF values = <<>> THEN result
  ELSE ReadEach(ReadObserverNext(result, Head(values)), Tail(values))

\* The producer calls the callback of the _remember() group with each value
\* in turn.
RECURSIVE RememberEach(_, _)
RememberEach(g, values) ==
  IF values = <<>> THEN g
  ELSE RememberEach(RememberNext(g, Head(values)), Tail(values))

\* _read() on the cold stream.
ReadCold ==
  /\ readTarget = "cold"
  /\ readCount < MaxReads
  /\ readCount' = readCount + 1
  /\ readResult' = ReadEach(Undefined, burst)
  /\ UNCHANGED <<readTarget, burst, rememberVars>>
  /\ UNCHANGED otherThanRead

\* _read() on the _remember() stream, which nobody else is subscribed to:
\* the group subscribes to the parent, the parent delivers the burst to the
\* group's callback, the observer is added and handed the cached value, and
\* the unsubscribe tears the parent subscription down.
ReadRemembered ==
  /\ readTarget = "remembered"
  /\ readCount < MaxReads
  /\ readCount' = readCount + 1
  /\ LET g == RememberEach(Group, burst) IN
       /\ lastValue' = g.lastValue
       /\ hasStarted' = g.hasStarted
       /\ groupIn' = g.groupIn
       /\ readResult' = IF g.hasStarted
                        THEN ReadEach(Undefined, <<g.lastValue>>)
                        ELSE Undefined
  /\ subscription' = "null"
  /\ UNCHANGED <<readTarget, burst, kind, observers, dispatched,
                 dedupeLastValue, parentSubs, warned>>
  /\ UNCHANGED otherThanRead

Bursts == UNION {[1..n -> Values] : n \in 0..MaxBurst}

InitRead ==
  /\ IdleRemember
  /\ IdleDebounce
  /\ IdleMerge
  /\ IdleLog
  /\ IdleType
  /\ IdleShared
  /\ IdleOperator
  /\ IdleMapRange
  /\ IdleReentrant
  /\ readTarget \in {"cold", "remembered"}
  /\ burst \in Bursts
  /\ readResult = Undefined
  /\ readCount = 0

NextRead ==
  \/ ReadCold
  \/ ReadRemembered

SpecRead == InitRead /\ [][NextRead]_vars

(***************************************************************************)
(* Streams built by _nextOperator(): the returned stream's connect          *)
(* function subscribes to the parent with a callback that runs the         *)
(* operation, and returns that parent subscription's unsubscribe.          *)
(*                                                                         *)
(* A JavaScript value is a pair of its type and a number; the booleans     *)
(* false and true are <<"boolean", 0>> and <<"boolean", 1>>, so that 0 and *)
(* false, 1 and true are different values, as they are for the strict      *)
(* comparison a switch statement makes.                                    *)
(***************************************************************************)
Num(n) == <<"number", n>>
Bool(b) == <<"boolean", b>>

OpValues == {Num(0), Num(1), Num(2), Bool(0), Bool(1)}

\* The operators whose stream _nextOperator() builds.  mapRange and pluck
\* are built the same way; their values are those of MapRange and Plucker.
NextOperators == {"_map", "_filter", "mapTo", "inverted", "log", "_debounce"}

\* The arguments the operators are applied with:
\* _map(value => value === 1), _filter(value => typeof value === 'number'),
\* mapTo(2), log().
Transform(value) == Bool(IF value = Num(1) THEN 1 ELSE 0)
Predicate(value) == value[1] = "number"
MapToValue == Num(2)

\* inverted(), as a plausible slip: a value the switch does not list is
\* passed through.
InvertedPassesThrough(value) ==
  CASE value = Num(0) -> <<Num(1)>>
    [] value = Num(1) -> <<Num(0)>>
    [] value = Bool(0) -> <<Bool(1)>>
    [] value = Bool(1) -> <<Bool(0)>>
    [] OTHER -> <<value>>

\* The values inverted()'s operation dispatches for one received value.
Inverted(value) ==
  CASE value = Num(0) -> <<Num(1)>>
    [] value = Num(1) -> <<Num(0)>>
    [] value = Bool(0) -> <<Bool(1)>>
    [] value = Bool(1) -> <<Bool(0)>>
    [] OTHER -> <<>>

\* The values an operation passes to the observer's next channel, during the
\* call, for one value received from the parent.  _debounce() passes none
\* during the call: it dispatches from the frame callback (RunFrame).
Operation(op, value) ==
  CASE op = "_map" -> <<Transform(value)>>
    [] op = "_filter" -> IF Predicate(value) THEN <<value>> ELSE <<>>
    [] op = "mapTo" -> <<MapToValue>>
    [] op = "inverted" -> Inverted(value)
    [] op = "log" -> <<value>>
    [] op = "_debounce" -> <<>>

\* The teardown of a downstream subscription, as a plausible slip: the
\* parent subscription is kept.
OperatorTeardownKeeps(parent, o) == parent

\* return subscription.unsubscribe: the teardown of the downstream
\* subscription ends the parent subscription made for it.
OperatorTeardown(parent, o) == parent \ {o}

\* x.op(...): builds the stream; connect has not run.
OperatorBuild ==
  /\ ~opBuilt
  /\ opBuilt' = TRUE
  /\ UNCHANGED <<opName, opDownstream, opParent, opConnects, sharedVars>>
  /\ UNCHANGED otherThanOperator

\* stream.subscribe(o): connect subscribes to the parent.
OperatorSubscribe(o) ==
  /\ opBuilt
  /\ o \notin opDownstream
  /\ opConnects < MaxSubscriptions
  /\ opConnects' = opConnects + 1
  /\ opParent' = opParent \cup {o}
  /\ opDownstream' = opDownstream \cup {o}
  /\ received' = [received EXCEPT ![o] = <<>>]
  /\ since' = [since EXCEPT ![o] = Len(sent)]
  /\ UNCHANGED <<opName, opBuilt, sent>>
  /\ UNCHANGED otherThanOperator

\* The unsubscribe of o's subscription.
OperatorUnsubscribe(o) ==
  /\ o \in opDownstream
  /\ opDownstream' = opDownstream \ {o}
  /\ opParent' = OperatorTeardown(opParent, o)
  /\ received' = [received EXCEPT ![o] = <<>>]
  /\ since' = [since EXCEPT ![o] = Len(sent)]
  /\ UNCHANGED <<opName, opBuilt, opConnects, sent>>
  /\ UNCHANGED otherThanOperator

\* The parent dispatches v: each live parent subscription's callback runs
\* the operation with its own observer's next channel.
OperatorDispatch(v) ==
  /\ Len(sent) < MaxOpSent
  /\ sent' = Append(sent, v)
  /\ received' = [o \in Observers |->
                    IF o \in opParent
                    THEN received[o] \o Operation(opName, v)
                    ELSE received[o]]
  /\ UNCHANGED <<opName, opBuilt, opDownstream, opParent, opConnects, since>>
  /\ UNCHANGED otherThanOperator

InitOperator ==
  /\ IdleRemember
  /\ IdleDebounce
  /\ IdleMerge
  /\ IdleLog
  /\ IdleType
  /\ IdleShared
  /\ IdleRead
  /\ IdleMapRange
  /\ IdleReentrant
  /\ opName \in NextOperators
  /\ opBuilt = FALSE
  /\ opDownstream = {}
  /\ opParent = {}
  /\ opConnects = 0

NextOperator ==
  \/ OperatorBuild
  \/ \E o \in Observers : OperatorSubscribe(o)
  \/ \E o \in Observers : OperatorUnsubscribe(o)
  \/ \E v \in OpValues : OperatorDispatch(v)

SpecOperator == InitOperator /\ [][NextOperator]_vars

(***************************************************************************)
(* _remember() and dedupe() with observers whose next handler calls back   *)
(* into the stream while the value is being fanned out: it reads the       *)
(* stream, subscribes another observer, throws, or dispatches the value it *)
(* was handed to the parent again.  The calls nest, so the state of the    *)
(* closures and the state of the call (whether an exception is unwinding   *)
(* it, how deep it has nested) are threaded through the operators as a     *)
(* record.                                                                 *)
(***************************************************************************)
Behaviours == {"record", "read", "subscribe", "throw", "feedback"}

Pass ==
  [observers |-> observers, lastValue |-> lastValue, hasStarted |-> hasStarted,
   dispatched |-> dispatched, dedupeLastValue |-> dedupeLastValue,
   received |-> received, groupIn |-> groupIn, readSeen |-> readSeen,
   raised |-> FALSE, depthSeen |-> 0]

\* The observer a "subscribe" handler subscribes.
Newcomer(o) == (o % NumObservers) + 1

\* stream._read() called while the group has an observer: the temporary
\* observer is added, handed the cached value if the group has started, and
\* deleted again before the forEach in progress reaches it.
ReentrantRead(g) ==
  IF g.hasStarted THEN ReadEach(Undefined, <<g.lastValue>>) ELSE Undefined

RECURSIVE HandlerNext(_, _, _, _)
RECURSIVE ReentrantFanOut(_, _, _, _)
RECURSIVE GroupNext(_, _, _)
RECURSIVE DedupeOperation(_, _, _)
RECURSIVE UpstreamNext(_, _, _)
RECURSIVE ReentrantConnect(_, _, _)

\* observer.next(v) of observer o, called at nesting depth d.
HandlerNext(g, o, v, d) ==
  LET g1 == [g EXCEPT !.received[o] = Append(@, v)] IN
  CASE behaviour[o] = "record" -> g1
    [] behaviour[o] = "read" ->
         [g1 EXCEPT !.readSeen[o] = Append(@, ReentrantRead(g1))]
    [] behaviour[o] = "subscribe" -> ReentrantConnect(g1, Newcomer(o), d)
    [] behaviour[o] = "throw" -> [g1 EXCEPT !.raised = TRUE]
    [] behaviour[o] = "feedback" -> UpstreamNext(g1, v, d + 1)

\* observers.forEach(observer => observer.next(value)), as a plausible
\* slip: an exception a handler throws is swallowed and the loop goes on.
ReentrantFanOutContinues(g, i, v, d) ==
  IF i > Len(g.observers) THEN g
  ELSE ReentrantFanOut(
         HandlerNext([g EXCEPT !.raised = FALSE], g.observers[i], v, d),
         i + 1, v, d)

\* observers.forEach(observer => observer.next(value)): a Set is visited in
\* insertion order, entries added during the visit included; an exception
\* ends the visit.
ReentrantFanOut(g, i, v, d) ==
  IF g.raised \/ i > Len(g.observers) THEN g
  ELSE ReentrantFanOut(HandlerNext(g, g.observers[i], v, d), i + 1, v, d)

\* The callback _remember() subscribes to its parent with: fan the value
\* out, then cache it; an exception from the fan-out skips the caching.
GroupNext(g, v, d) ==
  LET f == ReentrantFanOut([g EXCEPT !.groupIn = Append(@, v)], 1, v, d)
  IN IF f.raised THEN f ELSE CacheValue(f, v)

\* The operation of dedupe(), as a plausible slip: the flags are set after
\* the value has been dispatched.
DedupeOperationFlagsLast(g, v, d) ==
  IF DedupeDrops(g, v) THEN g
  ELSE LET f == GroupNext(g, v, d)
       IN IF f.raised THEN f
          ELSE [f EXCEPT !.dedupeLastValue = v, !.dispatched = TRUE]

\* The operation of dedupe(): the flags are set, then the value is
\* dispatched to the callback of the _remember() group.
DedupeOperation(g, v, d) ==
  IF DedupeDrops(g, v) THEN g
  ELSE GroupNext([g EXCEPT !.dedupeLastValue = v, !.dispatched = TRUE], v, d)

\* The parent dispatches v to the stream's one subscription, at nesting
\* depth d; past MaxDepth the call stack overflows and a RangeError unwinds
\* every call in progress.
UpstreamNext(g, v, d) ==
  IF d > MaxDepth THEN [g EXCEPT !.raised = TRUE]
  ELSE LET g0 == [g EXCEPT !.depthSeen = IF d > @ THEN d ELSE @]
       IN IF kind = "dedupe" THEN DedupeOperation(g0, v, d)
          ELSE GroupNext(g0, v, d)

\* The connect function of the _remember() stream, for observer o, while
\* the group has an observer or once the parent has been subscribed to.
ReentrantConnect(g, o, d) ==
  IF InSeq(o, g.observers) THEN g
  ELSE LET g1 == [g EXCEPT !.observers = Append(@, o)]
       IN IF g1.hasStarted THEN HandlerNext(g1, o, g1.lastValue, d) ELSE g1

\* The observers a call added to the group and returned a subscription
\* for: all of them, but the one whose own subscribe call ended with an
\* exception.
Subscribed(g, failed) ==
  {o \in Observers : InSeq(o, g.observers) /\ ~InSeq(o, observers)} \ failed

\* stream.subscribe(o), called between dispatches.
ReentrantSubscribe(o) ==
  /\ ~InSeq(o, observers)
  /\ LET g == ReentrantConnect(Pass, o, 1) IN
       /\ handles' = handles \cup Subscribed(g, IF g.raised THEN {o} ELSE {})
       /\ observers' = g.observers
       /\ lastValue' = g.lastValue
       /\ hasStarted' = g.hasStarted
       /\ dispatched' = g.dispatched
       /\ dedupeLastValue' = g.dedupeLastValue
       /\ groupIn' = g.groupIn
       /\ received' = g.received
       /\ readSeen' = g.readSeen
       /\ raised' = g.raised
       /\ depthSeen' = g.depthSeen
  /\ parentSubs' = IF SubscribesParent THEN parentSubs + 1 ELSE parentSubs
  /\ subscription' = "live"
  /\ UNCHANGED <<kind, warned, behaviour, sent, since>>
  /\ UNCHANGED otherThanReentrant

\* The unsubscribe of o's subscription, called between dispatches.
ReentrantUnsubscribe(o) ==
  /\ o \in handles
  /\ handles' = handles \ {o}
  /\ LET rest == Without(observers, o) IN
       /\ observers' = rest
       /\ parentSubs' = IF ReleasesParent(rest) THEN parentSubs - 1 ELSE parentSubs
       /\ subscription' = IF ReleasesParent(rest) THEN "null" ELSE subscription
  /\ received' = [received EXCEPT ![o] = <<>>]
  /\ readSeen' = [readSeen EXCEPT ![o] = <<>>]
  /\ raised' = FALSE
  /\ depthSeen' = 0
  /\ UNCHANGED <<kind, lastValue, hasStarted, dispatched, dedupeLastValue,
                 groupIn, warned, behaviour, sent, since>>
  /\ UNCHANGED otherThanReentrant

\* The parent dispatches v.
ReentrantDispatch(v) ==
  /\ parentSubs > 0
  /\ Len(sent) < MaxReentrantSent
  /\ sent' = Append(sent, v)
  /\ LET g == UpstreamNext(Pass, v, 1) IN
       /\ handles' = handles \cup Subscribed(g, {})
       /\ observers' = g.observers
       /\ lastValue' = g.lastValue
       /\ hasStarted' = g.hasStarted
       /\ dispatched' = g.dispatched
       /\ dedupeLastValue' = g.dedupeLastValue
       /\ groupIn' = g.groupIn
       /\ received' = g.received
       /\ readSeen' = g.readSeen
       /\ raised' = g.raised
       /\ depthSeen' = g.depthSeen
  /\ UNCHANGED <<kind, warned, behaviour, parentSubs, subscription, since>>
  /\ UNCHANGED otherThanReentrant

\* Observer 1 has any of the behaviours; the others record.
InitReentrant ==
  /\ IdleDebounce
  /\ IdleMerge
  /\ IdleLog
  /\ IdleType
  /\ IdleShared
  /\ IdleRead
  /\ IdleOperator
  /\ IdleMapRange
  /\ kind \in {"remember", "dedupe"}
  /\ observers = <<>>
  /\ subscription = "null"
  /\ lastValue = Undefined
  /\ hasStarted = FALSE
  /\ dispatched = FALSE
  /\ dedupeLastValue = Undefined
  /\ parentSubs = 0
  /\ groupIn = <<>>
  /\ warned = 0
  /\ behaviour \in {[o \in Observers |-> IF o = 1 THEN b ELSE "record"] :
                      b \in Behaviours}
  /\ readSeen = [o \in Observers |-> <<>>]
  /\ raised = FALSE
  /\ depthSeen = 0
  /\ handles = {}

NextReentrant ==
  \/ \E o \in Observers : ReentrantSubscribe(o)
  \/ \E o \in Observers : ReentrantUnsubscribe(o)
  \/ \E v \in Values : ReentrantDispatch(v)

SpecReentrant == InitReentrant /\ [][NextReentrant]_vars

(***************************************************************************)
(* Properties of observers that call back into the stream.                 *)
(***************************************************************************)
\* The position of observer o in the Set of observers.
Position(o, s) == CHOOSE i \in 1..Len(s) : s[i] = o

\* C14: the group caches a value before it fans it out: a _read() made from
\* inside a next handler returns the value the handler was called with, and
\* an observer subscribed from inside a next handler for v is handed v
\* first.
C14_CachedBeforeFanOut ==
  /\ [](\A o \in Observers :
          behaviour[o] = "read" => readSeen[o] = received[o])
  /\ [][\A o \in Observers :
          (sent' # sent /\ ~InSeq(o, observers) /\ InSeq(o, observers'))
            => (received'[o] # <<>> /\ Head(received'[o]) = Last(sent'))]_vars

\* C17: when an observer of a dedupe() stream dispatches, from inside its
\* next handler, the value it was handed to the parent again, the nested
\* value is dropped: the dispatch returns without an exception, the calls
\* nest no deeper than the one the handler made, and each observer has been
\* handed the value once, or not at all when it equals the value dispatched
\* last.
C17_FeedbackIsDropped ==
  [][(sent' # sent /\ kind = "dedupe" /\ behaviour[1] = "feedback")
       => /\ ~raised'
          /\ depthSeen' <= 2
          /\ \A o \in Observers :
               InSeq(o, observers) =>
                 received'[o] =
                   (IF dispatched /\ Last(sent') = dedupeLastValue
                    THEN received[o]
                    ELSE Append(received[o], Last(sent')))]_vars

\* Observer 1 fed the value it was handed back to the parent; one nested
\* dispatch was made and both observers were handed the value once.
C17_Witness ==
  /\ kind = "dedupe"
  /\ behaviour[1] = "feedback"
  /\ observers = <<1, 2>>
  /\ sent = <<1>>
  /\ depthSeen = 2
  /\ ~raised
  /\ received = [o \in Observers |-> IF o \in {1, 2} THEN <<1>> ELSE <<>>]

\* C18: when a next handler throws while the group fans a value out, the
\* dispatch ends with the exception, the observers registered before the
\* throwing one have been handed the value and the observers registered
\* after it have not.
C18_ThrowAbortsFanOut ==
  [][(/\ sent' # sent
      /\ behaviour[1] = "throw"
      /\ InSeq(1, observers)
      /\ ~(kind = "dedupe" /\ dispatched /\ Last(sent') = dedupeLastValue))
       => /\ raised'
          /\ \A o \in Observers :
               InSeq(o, observers) =>
                 received'[o] =
                   (IF Position(o, observers) <= Position(1, observers)
                    THEN Append(received[o], Last(sent'))
                    ELSE received[o])]_vars

\* Observer 1 threw on the value 1; observer 2, registered after it, was
\* not handed the value.
C18_Witness ==
  /\ behaviour[1] = "throw"
  /\ observers = <<1, 2>>
  /\ sent = <<1>>
  /\ raised
  /\ received[1] = <<1>>
  /\ received[2] = <<>>

(***************************************************************************)
(* _debounce() with an observer whose next handler, called from the frame  *)
(* callback, dispatches the next value to the parent before it returns.    *)
(***************************************************************************)
FramePass ==
  [queuedFrameID |-> queuedFrameID, debounceLastValue |-> debounceLastValue,
   frameQueue |-> <<>>, received |-> received,
   sinceTick |-> [o \in Observers |-> <<>>], sent |-> sent]

\* The value an "advance" handler dispatches when it is handed v.
NextValue(v) == (v % NumValues) + 1

\* observer.next(v) of observer o; the parent pushes the value an "advance"
\* handler dispatches to every live subscription.
AdvancingNext(d, o, v) ==
  LET d1 == [d EXCEPT !.received[o] = Append(@, v)]
  IN IF behaviour[o] = "advance"
     THEN DebounceEach([d1 EXCEPT !.sent = Append(@, NextValue(v))],
                       subscribers, NextValue(v))
     ELSE d1

\* The callback handed to requestAnimationFrame:
\* nextChannel(lastValue); queuedFrameID = 0.
AdvancingFrameCallback(d, cb) ==
  [AdvancingNext(d, cb.target, d.debounceLastValue) EXCEPT !.queuedFrameID = 0]

\* The frame runs the callbacks it holds, in the order they were requested.
RECURSIVE AdvancingRunFrame(_, _)
AdvancingRunFrame(d, cbs) ==
  IF cbs = <<>> THEN d
  ELSE AdvancingRunFrame(AdvancingFrameCallback(d, Head(cbs)), Tail(cbs))

\* An animation frame fires.
AdvancingTick ==
  /\ ticks < MaxTicks
  /\ ticks' = ticks + 1
  /\ LET d == AdvancingRunFrame(FramePass, frameQueue) IN
       /\ queuedFrameID' = d.queuedFrameID
       /\ debounceLastValue' = d.debounceLastValue
       /\ frameQueue' = d.frameQueue
       /\ received' = d.received
       /\ sinceTick' = d.sinceTick
       /\ sent' = d.sent
  /\ UNCHANGED <<subscribers, subscriptionsMade, since>>
  /\ UNCHANGED otherThanDebounce

\* Observer 1 records or advances; the others record.
InitAdvancing ==
  /\ IdleRemember
  /\ IdleMerge
  /\ IdleLog
  /\ IdleType
  /\ IdleDebounce
  /\ IdleShared
  /\ IdleRead
  /\ IdleOperator
  /\ IdleMapRange
  /\ behaviour \in {[o \in Observers |-> IF o = 1 THEN b ELSE "record"] :
                      b \in {"record", "advance"}}
  /\ readSeen = [o \in Observers |-> <<>>]
  /\ raised = FALSE
  /\ depthSeen = 0
  /\ handles = {}

NextAdvancing ==
  \/ \E o \in Observers : DebounceSubscribe(o)
  \/ \E v \in Values : DebounceDispatch(v)
  \/ AdvancingTick

SpecAdvancing == InitAdvancing /\ [][NextAdvancing]_vars

\* C20: no value is stranded in the buffer of _debounce(): whenever a live
\* subscription has received a value that no frame has dispatched since, a
\* frame callback is pending, also when the value was received while the
\* frame callback was dispatching.
C20_NothingStranded ==
  \A o \in Observers :
    (InSeq(o, subscribers) /\ sinceTick[o] # <<>>) => frameQueue # <<>>

(***************************************************************************)
(* mapRange().  A number is a binary floating-point number with a          *)
(* significand of Precision bits, written <<m, e>> for m * 2^e with m odd  *)
(* or <<0, 0>>; every arithmetic operation yields the exact result rounded *)
(* to the nearest number, ties to the even significand, as IEEE 754        *)
(* arithmetic does.  Exponents are unbounded: no overflow, no underflow.   *)
(***************************************************************************)
RECURSIVE Pow2(_)
Pow2(n) == IF n = 0 THEN 1 ELSE 2 * Pow2(n - 1)

RECURSIVE BitLen(_)
BitLen(a) == IF a = 0 THEN 0 ELSE 1 + BitLen(a \div 2)

Abs(m) == IF m < 0 THEN -m ELSE m
Sgn(m) == IF m < 0 THEN -1 ELSE 1
Min(a, b) == IF a < b THEN a ELSE b

\* m * 2^e with the factors of two moved out of m.
RECURSIVE Norm(_, _)
Norm(m, e) ==
  IF m = 0 THEN <<0, 0>>
  ELSE IF m % 2 = 0 THEN Norm(m \div 2, e + 1)
  ELSE <<m, e>>

\* The number nearest to m * 2^e.
RoundTo(m, e) ==
  LET a == Abs(m)
      k == BitLen(a) - Precision
  IN IF k <= 0 THEN Norm(m, e)
     ELSE LET q == a \div Pow2(k)
              r == a % Pow2(k)
              half == Pow2(k - 1)
              up == r > half \/ (r = half /\ q % 2 = 1)
          IN Norm(Sgn(m) * (IF up THEN q + 1 ELSE q), e + k)

FAdd(x, y) ==
  LET e == Min(x[2], y[2])
  IN RoundTo(x[1] * Pow2(x[2] - e) + y[1] * Pow2(y[2] - e), e)

FSub(x, y) ==
  LET e == Min(x[2], y[2])
  IN RoundTo(x[1] * Pow2(x[2] - e) - y[1] * Pow2(y[2] - e), e)

FMul(x, y) == RoundTo(x[1] * y[1], x[2] + y[2])

\* x / y for y other than zero: the quotient is carried to 2 * Precision + 2
\* bits, with one more bit that is set when there is a remainder.
FDiv(x, y) ==
  LET s == 2 * Precision + 2
      n == Abs(x[1]) * Pow2(s)
      d == Abs(y[1])
      q == n \div d
      sticky == IF n % d = 0 THEN 0 ELSE 1
  IN RoundTo(Sgn(x[1]) * Sgn(y[1]) * (2 * q + sticky), x[2] - y[2] - s - 1)

\* 0, 0.140625, 1, 5 and 10.
Numbers == {<<0, 0>>, <<9, -6>>, <<1, 0>>, <<5, 0>>, <<5, 1>>}

\* The operation of mapRange(), as a plausible slip: progress is measured
\* from fromStart.
MapRangeFromStart(args, value) ==
  LET fromRange == FSub(args.fromStart, args.fromEnd)
      fromProgress == FDiv(FSub(value, args.fromStart), fromRange)
      toRange == FSub(args.toStart, args.toEnd)
  IN FAdd(args.toEnd, FMul(fromProgress, toRange))

\* The value the operation of mapRange() dispatches for one received value.
MapRange(args, value) ==
  LET fromRange == FSub(args.fromStart, args.fromEnd)
      fromProgress == FDiv(FSub(value, args.fromEnd), fromRange)
      toRange == FSub(args.toStart, args.toEnd)
  IN FAdd(args.toEnd, FMul(fromProgress, toRange))

\* The parent of the mapRange() stream dispatches value.
MapRangeDispatch(value) ==
  /\ Len(mapRangeSent) < MaxMapRangeSent
  /\ mapRangeSent' = Append(mapRangeSent, value)
  /\ mapRangeReceived' = Append(mapRangeReceived, MapRange(mapRangeArgs, value))
  /\ UNCHANGED mapRangeArgs
  /\ UNCHANGED otherThanMapRange

\* The arguments have fromStart other than fromEnd; with fromStart equal to
\* fromEnd the division is by zero.
InitMapRange ==
  /\ IdleRemember
  /\ IdleDebounce
  /\ IdleMerge
  /\ IdleLog
  /\ IdleType
  /\ IdleShared
  /\ IdleRead
  /\ IdleOperator
  /\ IdleReentrant
  /\ mapRangeArgs \in {a \in [fromStart : Numbers, fromEnd : Numbers,
                              toStart : Numbers, toEnd : Numbers] :
                         a.fromStart # a.fromEnd}
  /\ mapRangeSent = <<>>
  /\ mapRangeReceived = <<>>

NextMapRange ==
  \E value \in Numbers : MapRangeDispatch(value)

SpecMapRange == InitMapRange /\ [][NextMapRange]_vars

(***************************************************************************)
(* Properties of mapRange().                                               *)
(***************************************************************************)
\* toEnd + ((v - fromEnd) / (fromStart - fromEnd)) * (toStart - toEnd), each
\* operation rounded.
Interpolated(a, v) ==
  FAdd(a.toEnd,
       FMul(FDiv(FSub(v, a.fromEnd), FSub(a.fromStart, a.fromEnd)),
            FSub(a.toStart, a.toEnd)))

\* With domain 0..10 and range 0..1 the inputs 0, 5, 10 dispatch 0, 0.5, 1.
DomainTenExample(a, v, d) ==
  a = [fromStart |-> <<0, 0>>, fromEnd |-> <<5, 1>>,
       toStart |-> <<0, 0>>, toEnd |-> <<1, 0>>] =>
    /\ v = <<0, 0>> => d = <<0, 0>>
    /\ v = <<5, 0>> => d = <<1, -1>>
    /\ v = <<5, 1>> => d = <<1, 0>>

RECURSIVE Toggled(_)
Toggled(values) ==
  IF values = <<>> THEN <<>>
  ELSE LET v == Head(values) IN
         (IF v \in {Num(0), Num(1), Bool(0), Bool(1)}
          THEN <<<<v[1], 1 - v[2]>>>>
          ELSE <<>>) \o Toggled(Tail(values))

\* C12: an observer of inverted() has received, for the values its parent
\* dispatched since it subscribed, one value for each 0, 1, false and true
\* (1, 0, true and false respectively) and nothing for any other value.
C12_InvertedToggles ==
  opName = "inverted" =>
    \A o \in opDownstream :
      received[o] = Toggled(SubSeq(sent, since[o] + 1, Len(sent)))

\* The parent dispatched true, then 2: the observer has received false only.
C12_Witness ==
  /\ opName = "inverted"
  /\ 1 \in opDownstream
  /\ since[1] = 0
  /\ sent = <<Bool(1), Num(2)>>
  /\ received[1] = <<Bool(0)>>

\* C19: a stream built by _nextOperator() holds as many live subscriptions
\* on its parent as it has live downstream subscriptions, one for each;
\* building it subscribes to nothing, each subscribe call invokes the
\* parent's producer once, and each unsubscribe ends the parent subscription
\* of that subscribe call and no other.
C19_ColdOperator ==
  /\ [](opParent = opDownstream /\ (~opBuilt => opConnects = 0))
  /\ [][/\ OperatorBuild => (opParent' = {} /\ opConnects' = 0)
        /\ \A o \in Observers :
             /\ OperatorSubscribe(o) =>
                  /\ opConnects' = opConnects + 1
                  /\ opParent' = opParent \cup {o}
             /\ OperatorUnsubscribe(o) =>
                  /\ opParent' = opParent \ {o}
                  /\ opConnects' = opConnects]_vars

\* Two observers subscribed, one has unsubscribed: the producer ran twice
\* and one parent subscription is live.
C19_Witness ==
  /\ opBuilt
  /\ opConnects = 2
  /\ opDownstream = {2}
  /\ opParent = {2}

(***************************************************************************)
(* Properties of _read().                                                  *)
(***************************************************************************)
\* C11, as amended: _read() returns the last value the stream delivers
\* synchronously during the temporary subscription, and undefined when it
\* delivers none.
C11_ReadReturnsLast ==
  readCount > 0 =>
    readResult = (IF burst = <<>> THEN Undefined ELSE Last(burst))

\* The producer delivered [1, 2] and _read() returned 2.
C11_Witness ==
  /\ readTarget = "cold"
  /\ burst = <<1, 2>>
  /\ readCount = 1
  /\ readResult = 2

\* C11 as stated: _read() returns the first value the stream delivers
\* synchronously, and undefined when it delivers none.
C11_ReadReturnsFirst ==
  readCount > 0 =>
    readResult = (IF burst = <<>> THEN Undefined ELSE Head(burst))

(***************************************************************************)
(* Properties of _remember() and dedupe().                                 *)
(***************************************************************************)
\* C1: an observer that subscribes to a remember() stream after the group
\* received a value is delivered, during that subscribe call and exactly
\* once, the value the group received most recently.
C1_ReplayOnSubscribe ==
  [][\A o \in Observers :
       (RememberSubscribe(o) /\ ~InSeq(o, observers) /\ groupIn # <<>>)
         => received'[o] = <<Last(groupIn)>>]_vars

\* Observer 2 subscribed after the group had received 1 and then 2, and was
\* handed 2 alone; observer 1 was subscribed from the start.
C1_Witness ==
  /\ kind = "remember"
  /\ observers = <<1, 2>>
  /\ groupIn = <<1, 2>>
  /\ received[1] = <<1, 2>>
  /\ received[2] = <<2>>
  /\ since[2] = 2

\* C2: the stream holds exactly one live subscription on its parent while
\* its observer set is non-empty and none otherwise; the parent is
\* subscribed only when the set goes from empty to one observer and
\* released once when it goes back to empty.
C2_SingleUpstream ==
  /\ [](/\ parentSubs = (IF Len(observers) > 0 THEN 1 ELSE 0)
        /\ (subscription = "live") <=> (Len(observers) > 0))
  /\ [][/\ (parentSubs' # parentSubs \/ subscription' # subscription)
             => (Len(observers) = 0) # (Len(observers') = 0)
        /\ (Len(observers) = 0 /\ Len(observers') = 1)
             => parentSubs' = parentSubs + 1
        /\ (Len(observers) = 1 /\ Len(observers') = 0)
             => parentSubs' = parentSubs - 1]_vars

\* Observer 1 subscribed first and left after the first value, observer 2
\* left after the second: the parent subscription was torn down then.
C2_Witness ==
  /\ observers = <<>>
  /\ subscription = "null"
  /\ parentSubs = 0
  /\ Len(sent) = 2
  /\ since[1] = 1
  /\ since[2] = 2

\* The upstream sequence with every run of consecutive equal values
\* collapsed to one.
RECURSIVE Collapse(_)
Collapse(s) ==
  IF Len(s) <= 1 THEN s
  ELSE IF s[1] = s[2] THEN Collapse(Tail(s))
  ELSE <<s[1]>> \o Collapse(Tail(s))

NoConsecutiveEqual(s) == \A i \in 1..(Len(s) - 1) : s[i] # s[i + 1]

\* C3: dedupe() dispatches a received value iff it is the first or differs
\* from the last dispatched one; an observer subscribed since before the
\* first value has received the upstream sequence with runs collapsed, and
\* no observer is delivered two equal values in a row.
C3_DedupeCollapses ==
  kind = "dedupe" =>
    /\ groupIn = Collapse(sent)
    /\ \A o \in Observers :
         (InSeq(o, observers) /\ since[o] = 0) => received[o] = Collapse(sent)
    /\ \A o \in Observers : NoConsecutiveEqual(received[o])

\* [1, 1, 2] was dispatched upstream and the observer got [1, 2].
C3_Witness ==
  /\ kind = "dedupe"
  /\ sent = <<1, 1, 2>>
  /\ InSeq(1, observers)
  /\ since[1] = 0
  /\ received[1] = <<1, 2>>

\* C10: subscribing an observer that is already registered leaves the
\* observer set, the cache, the started flag and the parent subscription as
\* they were and delivers nothing to the observer.
C10_DuplicateIsNoOp ==
  [][\A o \in Observers :
       (RememberSubscribe(o) /\ InSeq(o, observers))
         => UNCHANGED <<observers, lastValue, hasStarted, subscription,
                        parentSubs, received>>]_vars

\* A duplicate subscribe was made (and warned about) on a started group.
C10_Witness ==
  /\ warned > 0
  /\ hasStarted
  /\ observers = <<1>>
  /\ received[1] = <<1>>
  /\ sent = <<1>>

\* C15: when the last observer of a remember() or dedupe() stream has
\* unsubscribed, the cached value, the started flag and dedupe's
\* last-dispatched value are gone: an observer that subscribes to the empty
\* group is handed nothing during the subscribe call.
C15_TeardownForgets ==
  /\ [](observers = <<>> => (~hasStarted /\ ~dispatched))
  /\ [][\A o \in Observers :
          (RememberSubscribe(o) /\ observers = <<>>) => received'[o] = <<>>]_vars

=============================================================================
